---------------------------- MODULE Spec2Model ----------------------------
(***************************************************************************)
(* Batch-job lifecycle manager of insightflow-functions.                   *)
(*                                                                         *)
(*   batchJobStorage.js      JobStore: one JSON blob per job, stored under *)
(*                           <folder>/<batchId>.json in "batch-jobs"       *)
(*   batchStatusChecker.js   timer handler: poll, reconcile, retry         *)
(*   generateInsightsSummary.js  blob trigger: submit a batch              *)
(*                                                                         *)
(* Every await of the handlers is one step of the model, so that a crash   *)
(* or an overlapping invocation can fall between any two storage calls.    *)
(***************************************************************************)
EXTENDS Integers, Sequences, FiniteSets, TLC

(***************************************************************************)
(* Values                                                                  *)
(***************************************************************************)
\* A nullable field holds Null or Some(v).
Null == <<>>
Some(v) == <<v>>

\* Input blobs that fire the blob trigger.  The remote service gives each
\* batch it creates a fresh id; the batch created for blob j is named j.
Jobs == {"b1", "b2"}

\* Invocations of the timer handler that may be in progress.
Pollers == {"p1", "p2"}

\* The folders of the container, in the order getJob searches them.
Folders == <<"pending", "completed", "processed", "failed">>

MAX_RETRIES == 3

\* hours > 25 in the still-running case
STUCK_HOURS == 25

\* The clock, in hours since the first event.  It moves by ClockGap, the
\* shortest time after which a job counts as stuck, and stops at MaxClock.
MaxClock == 26
ClockGap == STUCK_HOURS + 1

RunningStatuses == {"validating", "in_progress", "finalizing"}
RemoteStatuses ==
    RunningStatuses \cup {"completed", "failed", "expired", "cancelled", "cancelling"}

\* File ids the remote service reports for the batch of job j; the batch of
\* "b1" has an error file, the batch of "b2" has none.
OutputFileOf(j) == <<"output-file", j>>
ErrorFileIdOf(j) == IF j = "b1" THEN Some(<<"error-file", j>>) ELSE Null

\* What batches.retrieve(j) may resolve to.
BatchAnswers(j) ==
    {[status |-> s, output_file_id |-> Null, error_file_id |-> Null, error |-> Null] :
        s \in RunningStatuses \cup {"expired", "cancelled", "cancelling"}}
    \cup {[status |-> "completed", output_file_id |-> o,
           error_file_id |-> ErrorFileIdOf(j), error |-> Null] :
        o \in {Null, Some(OutputFileOf(j))}}
    \cup {[status |-> "failed", output_file_id |-> Null, error_file_id |-> Null, error |-> m] :
        m \in {Null, Some("remote error")}}

NoAnswer == [status |-> "none", output_file_id |-> Null, error_file_id |-> Null, error |-> Null]

\* The records parsed from input blob j (parseRecords); only their number
\* and position matter to the job store.
RecordCountOf(j) == IF j = "b1" THEN 3 ELSE 1

\* job.inputBlobPath is `datasets/${fileName}`.
InputBlobPathOf(j) == <<"datasets", j>>

(***************************************************************************)
(* The output artifact of a batch: a line-delimited document.              *)
(***************************************************************************)
\* A line is blank, is not JSON, or is an entry with a custom_id, an optional
\* error and a response content that is a JSON object ("object"), text that
\* does not parse ("text"), or missing ("none").
Line(kind, id, content) == [kind |-> kind, custom_id |-> id, content |-> content]

OutputContentOf(j) ==
    IF j = "b1"
    THEN << Line("entry", "r1", "object"), Line("malformed", "", "none"),
            Line("error", "r2", "none"), Line("entry", "r3", "text") >>
    ELSE << Line("entry", "r1", "object"), Line("blank", "", "none"),
            Line("entry", "r2", "none") >>

\* The output files the reconciler is run against: every document of at most
\* MaxLines lines.  Entries are told apart by their custom_id.
MaxLines == 2

LineKinds ==
    {<<"entry", "object">>, <<"entry", "text">>, <<"entry", "none">>,
     <<"error", "none">>, <<"malformed", "none">>, <<"blank", "none">>}

RecordIds == <<"r1", "r2", "r3", "r4">>

ArtifactOf(f) ==
    [i \in 1..Len(f) |->
        Line(f[i][1], IF f[i][1] \in {"entry", "error"} THEN RecordIds[i] ELSE "",
             f[i][2])]

Artifacts == {ArtifactOf(f) : f \in UNION {[1..k -> LineKinds] : k \in 0..MaxLines}}

(***************************************************************************)
(* The records of a dataset and the batch input file made from them        *)
(* (generateInsightsSummary.js, createBatchJsonl).                         *)
(***************************************************************************)
\* A record has an Id and a Name, each missing (Null), empty or a value.
MaxRecords == 2

RecordKinds ==
    [Id : {Null, Some(""), Some("a"), Some("b")}, Name : {Null, Some(""), Some("n")}]

Datasets == UNION {[1..k -> RecordKinds] : k \in 0..MaxRecords}

\* JavaScript's a || b takes a unless a is undefined, null or "".
Truthy(v) == v # Null /\ v[1] # ""

\* A createBatchJsonl that numbers the records from one.
recordId_OneBased(record, index) ==
    IF Truthy(record.Id) THEN record.Id[1]
    ELSE IF Truthy(record.Name) THEN record.Name[1]
    ELSE <<"record-", index + 1>>

\* line 951: record.Id || record.Name || `record-${index}`
recordId(record, index) ==
    IF Truthy(record.Id) THEN record.Id[1]
    ELSE IF Truthy(record.Name) THEN record.Name[1]
    ELSE <<"record-", index>>

\* lines 954-970: the request of one record; its user prompt is built from
\* the record.
Request(record, index) ==
    [custom_id |-> recordId(record, index), method |-> "POST",
     url |-> "/v1/chat/completions", prompt |-> record]

\* lines 950-975: records.map((record, index) => ...), one line per request.
createBatchJsonl(records) == [i \in 1..Len(records) |-> Request(records[i], i - 1)]

\* No dataset has been turned into a batch input file.
NoJsonl == [records |-> <<>>, documents |-> <<>>]

\* createBatchJsonl is run at most this many times on a dataset.
MaxRuns == 2

(***************************************************************************)
(* The direct path: processBatches sends the records to the model in       *)
(* chunks of batchSize, the calls of one chunk at the same time.           *)
(***************************************************************************)
MaxFanRecords == 3
MaxBatchSize == 2

FanRecord(i) == <<"record", i>>

Min(a, b) == IF a < b THEN a ELSE b

\* chunkArray: slices of `size` elements, the last one shorter if need be.
chunkArray(array, size) ==
    [c \in 1..((Len(array) + size - 1) \div size) |->
        SubSeq(array, (c - 1) * size + 1, Min(c * size, Len(array)))]

\* The .then and .catch handlers of one call: how the call settled becomes
\* the success flag of the record's result.
ResultOf(record, settled) == [success |-> settled = "fulfilled", originalRecord |-> record]

\* A join that keeps the results of the calls that succeeded.
JoinAll_OnlyFulfilled(batch, calls) ==
    SelectSeq([i \in 1..Len(batch) |-> ResultOf(batch[i], calls[i])],
              LAMBDA r : r.success)

\* Promise.all(batchPromises): the results in the order of the promises.
JoinAll(batch, calls) == [i \in 1..Len(batch) |-> ResultOf(batch[i], calls[i])]

\* processBatches has not been called.
NoFanOut ==
    [pc |-> "none", records |-> <<>>, batchSize |-> 1, batchIndex |-> 0,
     calls |-> <<>>, settled |-> <<>>, allResults |-> <<>>]

\* The blobs the trigger may fire for; "b0" holds no record.
Blobs == Jobs \cup {"b0"}

\* listBlobsFlat returns blob names in lexical order.
JobOrder == <<"b1", "b2">>

\* .trim().split("\n").filter(Boolean).map(JSON.parse or null).filter(Boolean)
parseJsonl(content) ==
    SelectSeq(content, LAMBDA line : line.kind \in {"entry", "error"})

ObjectNameOf(j) == <<"object", j>>

\* transformToSalesforceFormat: Null stands for the function's `return null`.
transformToSalesforceFormat(result, job) ==
    IF result.kind = "error" THEN Null
    ELSE IF result.content # "object" THEN Null
    ELSE Some([ParentObjectId__c |-> result.custom_id,
               ParentObjectApiName__c |-> job.objectName,
               RawInsightsJSON__c |-> result.content])

RECURSIVE mapTransform(_, _)
mapTransform(results, job) ==
    IF results = <<>> THEN <<>>
    ELSE LET r == transformToSalesforceFormat(Head(results), job)
         IN  (IF r = Null THEN <<>> ELSE r) \o mapTransform(Tail(results), job)

\* processResults, lines 109-127: parse, transform, drop the nulls.
processedResults(content, job) == mapTransform(parseJsonl(content), job)

\* saveResults, lines 184-186: `${baseName}_processed_${timestamp}.jsonl`
OutputFileName(job, t) == <<job.inputBlobPath[2], "processed", t>>

OUTPUT_CONTAINER == "output"

(***************************************************************************)
(* Job records and the blob container                                      *)
(***************************************************************************)
\* A createBatchJob that does not take over data.recordCount.
NewJob_Uncounted(j, t) ==
    [batchId |-> j, inputFileId |-> <<"input-file", j>>,
     inputBlobPath |-> InputBlobPathOf(j), recordCount |-> 0,
     objectName |-> ObjectNameOf(j),
     status |-> "pending", submittedAt |-> t, completedAt |-> Null,
     outputFileId |-> Null, errorFileId |-> Null, errorMessage |-> Null,
     retryCount |-> 0, outputBlobPath |-> Null, processedAt |-> Null]

\* createBatchJob, lines 30-43.  Fields the record does not have yet
\* (errorFileId, outputBlobPath, processedAt) read as Null.
NewJob(j, t) ==
    [batchId |-> j, inputFileId |-> <<"input-file", j>>,
     inputBlobPath |-> InputBlobPathOf(j), recordCount |-> RecordCountOf(j),
     objectName |-> ObjectNameOf(j),
     status |-> "pending", submittedAt |-> t, completedAt |-> Null,
     outputFileId |-> Null, errorFileId |-> Null, errorMessage |-> Null,
     retryCount |-> 0, outputBlobPath |-> Null, processedAt |-> Null]

BlobName(folder, j) == <<folder, j>>

Exists(container, name) == name \in DOMAIN container

\* blockBlobClient.upload creates the blob or replaces its content.
Upload(container, name, content) == (name :> content) @@ container

\* A delete that removes nothing.
Delete_Noop(container, name) == container

\* deleteIfExists
Delete(container, name) == [n \in DOMAIN container \ {name} |-> container[n]]


\* The number of storage faults and process crashes the environment injects.
MaxFaults == 1

(***************************************************************************)
(* State                                                                   *)
(***************************************************************************)
VARIABLES
    batchJobs,      \* container "batch-jobs": blob name -> job record
    outputBlobs,    \* container OUTPUT_CONTAINER: file name -> saved results
    pipelineRuns,   \* file names the WriteBack pipeline was started for, in order
    now,            \* the clock (Date.now()), in hours
    env,            \* process.env: which settings are present
    faultsLeft,     \* storage faults and crashes the environment may still inject
    inputFiles,     \* blobs whose batch input file is uploaded to the remote service
    batches,        \* blobs for which the remote service created a batch
    sub,            \* per blob: how far its storageBlobTrigger invocation is
    poller,         \* per timer invocation: position and locals of the handler
    history,        \* per job: what has happened to it so far (see NoHistory)
    artifacts,      \* per batch: the lines of the output file the service holds
    api,            \* the last call a direct caller made to the job store
    jsonl,          \* createBatchJsonl: the records given and the documents returned
    fan             \* processBatches: its arguments, locals and position

vars == <<batchJobs, outputBlobs, pipelineRuns, now, env, faultsLeft,
          inputFiles, batches, sub, poller, history, artifacts, api, jsonl,
          fan>>

\* Locals of one invocation of the batchStatusChecker handler.
\*   pc           the await the invocation is suspended at ("idle": not running)
\*   pendingJobs  the jobs read by getPendingJobs, idx the position of `job`
\*   batchStatus  what batches.retrieve resolved to for `job`
\*   call         the markX call in progress, inCatch: inside catch (err)
\*   err          the caught error's message
\*   buf          the record moveJob / incrementRetry has read and changed
\*   outputPath   what saveResults returned
\*   outcome      how the last invocation ended
\*   warned       the stuck-job warning was logged for `job`
\*   faulted      a storage call failed while `job` was handled
IdlePoller ==
    [pc |-> "idle", pendingJobs |-> <<>>, idx |-> 1, batchStatus |-> NoAnswer,
     call |-> "none", inCatch |-> FALSE, err |-> Null, buf |-> Null,
     outputPath |-> Null, outcome |-> "none", warned |-> FALSE, faulted |-> FALSE]

\* What has happened to a job so far:
\*   failed     status queries that were rejected
\*   streak     status queries rejected in a row, up to now
\*   other      errors caught at line 80 that were not a rejected status query
\*   completed  a markCompleted call for it has returned
\*   processed  a markProcessed call for it has returned
\*   retried    incrementRetry calls for it that have returned
NoHistory ==
    [failed |-> 0, streak |-> 0, other |-> 0, completed |-> FALSE, processed |-> FALSE,
     retried |-> 0]

EnvSettings == [openai : BOOLEAN, storage : BOOLEAN, adf : BOOLEAN]

\* A call of an exported function of batchJobStorage.js: the function, the
\* job it was called for, the folders that held a record of the job when it
\* was called, and how it ended ("returned" or "thrown").
NoCall == [op |-> "none", jobId |-> "", held |-> {}, outcome |-> "none"]

\* The state before any trigger has fired.
InitSubmit ==
    /\ batchJobs = <<>>
    /\ artifacts = [j \in Jobs |-> OutputContentOf(j)]
    /\ outputBlobs = <<>>
    /\ pipelineRuns = <<>>
    /\ now = 0
    /\ env \in EnvSettings
    /\ faultsLeft = MaxFaults
    /\ inputFiles = {}
    /\ batches = {}
    /\ sub = [b \in Blobs |-> "new"]
    /\ poller = [p \in Pollers |-> IdlePoller]
    /\ api = NoCall
    /\ fan = NoFanOut
    /\ jsonl = NoJsonl
    /\ history = [j \in Jobs |-> NoHistory]

\* The blob trigger has fired for every blob and has come as far as it can
\* without the job store.  The upload for "b2" was rejected; with the remote
\* service configured the batch of "b1" is created and createBatchJob is
\* about to be called for it (line 929).
Init ==
    /\ batchJobs = <<>>
    /\ artifacts = [j \in Jobs |-> OutputContentOf(j)]
    /\ outputBlobs = <<>>
    /\ pipelineRuns = <<>>
    /\ now = 0
    /\ env \in EnvSettings
    /\ faultsLeft = MaxFaults
    /\ inputFiles = (IF env.openai THEN {"b1"} ELSE {})
    /\ batches = (IF env.openai THEN {"b1"} ELSE {})
    /\ sub = [b \in Blobs |-> IF b \notin Jobs THEN "skipped"
                               ELSE IF env.openai /\ b = "b1" THEN "created" ELSE "failed"]
    /\ poller = [p \in Pollers |-> IdlePoller]
    /\ api = NoCall
    /\ fan = NoFanOut
    /\ jsonl = NoJsonl
    /\ history = [j \in Jobs |-> NoHistory]

AllSet == [openai |-> TRUE, storage |-> TRUE, adf |-> TRUE]

\* Everything is configured; one job is pending, either just submitted or
\* after two ticks in which its status query was rejected.
InitOverlap ==
    /\ \E r \in {0, MAX_RETRIES - 1} :
          /\ batchJobs = (BlobName("pending", "b1") :>
                            [NewJob("b1", 0) EXCEPT !.retryCount = r])
          /\ history = [j \in Jobs |->
                          IF j = "b1"
                          THEN [NoHistory EXCEPT !.failed = r, !.streak = r, !.retried = r]
                          ELSE NoHistory]
    /\ outputBlobs = <<>>
    /\ pipelineRuns = <<>>
    /\ now = 0
    /\ env = AllSet
    /\ faultsLeft = MaxFaults
    /\ inputFiles = {"b1"}
    /\ batches = {"b1"}
    /\ sub = [b \in Blobs |-> IF b = "b1" THEN "done" ELSE "skipped"]
    /\ poller = [p \in Pollers |-> IdlePoller]
    /\ api = NoCall
    /\ fan = NoFanOut
    /\ jsonl = NoJsonl
    /\ artifacts = [j \in Jobs |-> OutputContentOf(j)]

\* Everything is configured and one job has just been submitted; the output
\* file of its batch is any of Artifacts.
InitReconcile ==
    /\ batchJobs = (BlobName("pending", "b1") :> NewJob("b1", 0))
    /\ artifacts \in {[j \in Jobs |-> IF j = "b1" THEN a ELSE OutputContentOf(j)] :
                         a \in Artifacts}
    /\ outputBlobs = <<>>
    /\ pipelineRuns = <<>>
    /\ now = 0
    /\ env = AllSet
    /\ faultsLeft = MaxFaults
    /\ inputFiles = {"b1"}
    /\ batches = {"b1"}
    /\ sub = [b \in Blobs |-> IF b = "b1" THEN "done" ELSE "skipped"]
    /\ poller = [p \in Pollers |-> IdlePoller]
    /\ api = NoCall
    /\ fan = NoFanOut
    /\ jsonl = NoJsonl
    /\ history = [j \in Jobs |-> NoHistory]

\* Everything is configured, both jobs have just been submitted, and the
\* environment injects at most one fault.
InitTwo ==
    /\ batchJobs = [n \in {BlobName("pending", j) : j \in Jobs} |-> NewJob(n[2], 0)]
    /\ artifacts = [j \in Jobs |-> OutputContentOf(j)]
    /\ outputBlobs = <<>>
    /\ pipelineRuns = <<>>
    /\ now = 0
    /\ env = AllSet
    /\ faultsLeft = MaxFaults
    /\ inputFiles = Jobs
    /\ batches = Jobs
    /\ sub = [b \in Blobs |-> IF b \in Jobs THEN "done" ELSE "skipped"]
    /\ poller = [p \in Pollers |-> IdlePoller]
    /\ api = NoCall
    /\ fan = NoFanOut
    /\ jsonl = NoJsonl
    /\ history = [j \in Jobs |-> NoHistory]

(***************************************************************************)
(* batchJobStorage.js                                                      *)
(***************************************************************************)
\* What the handler reads of a listed job.
JobView(job) ==
    [batchId |-> job.batchId, submittedAt |-> job.submittedAt,
     inputBlobPath |-> job.inputBlobPath, objectName |-> job.objectName]

RECURSIVE downloadAll(_, _)
downloadAll(container, names) ==
    IF names = <<>> THEN <<>>
    ELSE <<JobView(container[BlobName("pending", Head(names))])>>
         \o downloadAll(container, Tail(names))

\* getPendingJobs: every blob under pending/, in listing order.
getPendingJobs(container) ==
    downloadAll(container,
                SelectSeq(JobOrder, LAMBDA j : Exists(container, BlobName("pending", j))))

\* A getJob that looks under pending/ only.
firstFolder_PendingOnly(container, j, folders) ==
    IF Exists(container, BlobName("pending", j))
    THEN Some(container[BlobName("pending", j)])
    ELSE Null

RECURSIVE firstFolder(_, _, _)
firstFolder(container, j, folders) ==
    IF folders = <<>> THEN Null
    ELSE IF Exists(container, BlobName(Head(folders), j))
         THEN Some(container[BlobName(Head(folders), j)])
         ELSE firstFolder(container, j, Tail(folders))

\* getJob: the record in the first folder that has one, or null.
getJob(container, j) == firstFolder(container, j, Folders)

\* The folders that hold a record of job j.
FoldersOf(container, j) ==
    {Folders[i] : i \in {k \in 1..Len(Folders) : Exists(container, BlobName(Folders[k], j))}}

\* A moveJob that writes the updates without the record it read.
Merge_UpdatesOnly(job, updates) ==
    [f \in DOMAIN job |-> IF f \in DOMAIN updates THEN updates[f] ELSE Null]

\* moveJob's { ...JSON.parse(content), ...updates }
Merge(job, updates) ==
    [f \in DOMAIN job |-> IF f \in DOMAIN updates THEN updates[f] ELSE job[f]]

\* The folders a markX call moves between.
FromFolder(which) == IF which = "markProcessed" THEN "completed" ELSE "pending"

\* A markCompleted that moves the record straight under processed/.
ToFolder_Direct(which) ==
    CASE which = "markFailed" -> "failed"
      [] OTHER -> "processed"

ToFolder(which) ==
    CASE which = "markCompleted" -> "completed"
      [] which = "markProcessed" -> "processed"
      [] OTHER -> "failed"

\* A markCompleted that writes the final status at once.
markCompletedUpdates_Final(outputFileId, errorFileId, t) ==
    [status |-> "processed", outputFileId |-> outputFileId,
     errorFileId |-> errorFileId, completedAt |-> Some(t)]

markCompletedUpdates(outputFileId, errorFileId, t) ==
    [status |-> "completed", outputFileId |-> outputFileId,
     errorFileId |-> errorFileId, completedAt |-> Some(t)]

markProcessedUpdates(outputBlobPath, t) ==
    [status |-> "processed", outputBlobPath |-> outputBlobPath, processedAt |-> Some(t)]

\* A markFailed that does not stamp completedAt.
markFailedUpdates_NoStamp(errorMessage, t) ==
    [status |-> "failed", errorMessage |-> Some(errorMessage)]

markFailedUpdates(errorMessage, t) ==
    [status |-> "failed", errorMessage |-> Some(errorMessage), completedAt |-> Some(t)]

\* An incrementRetry that counts in twos.
RetryIncremented_Twice(job) == [job EXCEPT !.retryCount = @ + 2]

\* incrementRetry, line 133
RetryIncremented(job) == [job EXCEPT !.retryCount = @ + 1]


(***************************************************************************)
(* batchStatusChecker.js: control flow of the timer handler                *)
(***************************************************************************)
CurJob(l) == l.pendingJobs[l.idx]

\* The for loop goes on to the next job; after the last one the handler returns.
NextJob(l) ==
    [l EXCEPT !.idx = @ + 1,
              !.pc = IF l.idx < Len(l.pendingJobs) THEN "retrieve" ELSE "idle",
              !.outcome = IF l.idx < Len(l.pendingJobs) THEN "running" ELSE "returned",
              !.batchStatus = NoAnswer, !.call = "none", !.inCatch = FALSE,
              !.err = Null, !.buf = Null, !.outputPath = Null,
              !.warned = FALSE, !.faulted = FALSE]

\* An error thrown while `job` is handled.  Inside the try block (lines 52-79)
\* it is caught at line 80 and incrementRetry is called; inside the catch
\* block (lines 81-85) it reaches the outer catch at line 88, which rethrows:
\* the invocation ends.
Throw(l, message) ==
    IF l.inCatch
    THEN [IdlePoller EXCEPT !.pendingJobs = l.pendingJobs, !.idx = l.idx,
                            !.outcome = "thrown"]
    ELSE [l EXCEPT !.pc = "incrementRetry.download", !.inCatch = TRUE,
                   !.err = Some(message), !.call = "none", !.buf = Null]

\* A notification that raises its failure to the caller.
AfterTrigger_Rethrows(l, ok) ==
    IF ok THEN NextJob(l) ELSE Throw(l, "pipeline trigger failed")

\* triggerWriteBackPipeline returns whether the run was created (ok) or not:
\* lines 203-206 return early, lines 229-233 and 236-238 log and return.
AfterTrigger(l, ok) == NextJob(l)

\* A call of markCompleted, markProcessed or markFailed: moveJob starts.
Call(l, which) == [l EXCEPT !.pc = "moveJob.download", !.call = which, !.buf = Null]

\* lines 62 and 67: the errorMessage for a batch the service gave up on
RemoteFailureMessage(batchStatus) ==
    IF batchStatus.status = "failed"
    THEN IF batchStatus.error # Null THEN <<batchStatus.error[1]>> ELSE <<"Failed">>
    ELSE <<"Batch ", batchStatus.status>>

\* line 84: `Max retries: ${err.message}`
MaxRetriesMessage(err) == <<"Max retries: ", err[1]>>

\* lines 74-75
IsStuck(job, t) == t - job.submittedAt > STUCK_HOURS

\* A comparison that lets one more retry through.
RetriesExhausted_Late(updated) == updated.retryCount > MAX_RETRIES

\* A catch block that never gives up on a job.
RetriesExhausted_Never(updated) == FALSE

\* line 83
RetriesExhausted(updated) == updated.retryCount >= MAX_RETRIES

\* A switch that gives up on a batch still running after STUCK_HOURS.
Switch_FailStuck(l, t) ==
    LET s == l.batchStatus.status IN
    CASE s = "completed" ->
            IF l.batchStatus.output_file_id = Null
            THEN Throw(l, "No output file ID")
            ELSE [l EXCEPT !.pc = "files.content"]
      [] s \in {"failed", "expired", "cancelled"} -> Call(l, "markFailed")
      [] s \in RunningStatuses ->
            IF IsStuck(CurJob(l), t)
            THEN Call(l, "markFailed")
            ELSE [NextJob(l) EXCEPT !.batchStatus = l.batchStatus]
      [] OTHER -> [NextJob(l) EXCEPT !.batchStatus = l.batchStatus]

\* A switch without the case for failed, expired and cancelled batches.
Switch_NoFailedCase(l, t) ==
    LET s == l.batchStatus.status IN
    CASE s = "completed" ->
            IF l.batchStatus.output_file_id = Null
            THEN Throw(l, "No output file ID")
            ELSE [l EXCEPT !.pc = "files.content"]
      [] s \in RunningStatuses ->
            [NextJob(l) EXCEPT !.batchStatus = l.batchStatus,
                               !.warned = IsStuck(CurJob(l), t)]
      [] OTHER -> [NextJob(l) EXCEPT !.batchStatus = l.batchStatus]

\* A switch whose default case fails the job.
Switch_FailUnknown(l, t) ==
    LET s == l.batchStatus.status IN
    CASE s = "completed" ->
            IF l.batchStatus.output_file_id = Null
            THEN Throw(l, "No output file ID")
            ELSE [l EXCEPT !.pc = "files.content"]
      [] s \in RunningStatuses ->
            [NextJob(l) EXCEPT !.batchStatus = l.batchStatus,
                               !.warned = IsStuck(CurJob(l), t)]
      [] OTHER -> Call(l, "markFailed")

\* The switch at lines 56-79, entered with the resolved batchStatus.
Switch(l, t) ==
    LET s == l.batchStatus.status IN
    CASE s = "completed" ->
            \* processResults, lines 101-102
            IF l.batchStatus.output_file_id = Null
            THEN Throw(l, "No output file ID")
            ELSE [l EXCEPT !.pc = "files.content"]
      [] s \in {"failed", "expired", "cancelled"} -> Call(l, "markFailed")
      [] s \in RunningStatuses ->
            \* lines 70-78: the log still shows the status and the warning
            [NextJob(l) EXCEPT !.batchStatus = l.batchStatus,
                               !.warned = IsStuck(CurJob(l), t)]
      [] OTHER -> [NextJob(l) EXCEPT !.batchStatus = l.batchStatus]

\* The updates of the markX call in progress.
Updates(l, t) ==
    CASE l.call = "markCompleted" ->
            markCompletedUpdates(l.batchStatus.output_file_id,
                                 l.batchStatus.error_file_id, t)
      [] l.call = "markProcessed" -> markProcessedUpdates(l.outputPath, t)
      [] OTHER ->
            markFailedUpdates(IF l.inCatch THEN MaxRetriesMessage(l.err)
                              ELSE RemoteFailureMessage(l.batchStatus), t)

\* A processResults that does not call markProcessed.
AfterMove_NoMarkProcessed(l) ==
    CASE l.call = "markCompleted" ->
            [l EXCEPT !.pc = "triggerWriteBackPipeline", !.buf = Null]
      [] OTHER -> NextJob(l)

\* What follows a markX call that returned.
AfterMove(l) ==
    CASE l.call = "markCompleted" -> Call(l, "markProcessed")
      [] l.call = "markProcessed" -> [l EXCEPT !.pc = "triggerWriteBackPipeline", !.buf = Null]
      [] OTHER -> NextJob(l)

Set(p, l) == poller' = [poller EXCEPT ![p] = l]

\* A storage call that rejects (network error, throttling, ...).
StorageFault(p) ==
    /\ faultsLeft > 0
    /\ faultsLeft' = faultsLeft - 1
    /\ Set(p, Throw([poller[p] EXCEPT !.faulted = TRUE], "storage error"))

\* The history of the job in hand, brought up to date with the step taken.
Track(p) ==
    LET l == poller[p]
        m == poller'[p]
    IN  IF l.pc = "idle" THEN UNCHANGED history
        ELSE LET j == CurJob(l).batchId
                 h == history[j]
                 caught == m.inCatch /\ ~l.inCatch
                 rejected == l.pc = "retrieve" /\ caught /\ m.err = Some("retrieve failed")
                 returned == l.pc = "moveJob.delete" /\ m.pc # "idle" /\ m.inCatch = l.inCatch
             IN  history' = [history EXCEPT ![j] =
                    [failed |-> IF rejected THEN h.failed + 1 ELSE h.failed,
                     streak |-> IF rejected THEN h.streak + 1
                                ELSE IF l.pc = "retrieve" THEN 0 ELSE h.streak,
                     other |-> IF caught /\ ~rejected THEN h.other + 1 ELSE h.other,
                     completed |-> h.completed \/ (returned /\ l.call = "markCompleted"),
                     processed |-> h.processed \/ (returned /\ l.call = "markProcessed"),
                     retried |-> IF l.pc = "incrementRetry.upload"
                                    /\ ~(m.pc = "idle" /\ m.outcome \in {"thrown", "crashed"})
                                 THEN h.retried + 1 ELSE h.retried]]

(***************************************************************************)
(* batchStatusChecker.js: the steps                                        *)
(***************************************************************************)
\* A handler that lists the pending jobs without looking at the settings.
TickStart_NoConfigCheck(p) ==
    /\ poller[p].pc = "idle"
    /\ UNCHANGED <<batchJobs, outputBlobs, pipelineRuns, now, env, artifacts, api, jsonl, fan,
                   inputFiles, batches, sub, faultsLeft>>
    /\ LET jobs == getPendingJobs(batchJobs) IN
       Set(p, IF jobs = <<>>
              THEN [IdlePoller EXCEPT !.outcome = "returned"]
              ELSE [IdlePoller EXCEPT !.pc = "retrieve", !.pendingJobs = jobs,
                                      !.outcome = "running"])
    /\ Track(p)

\* lines 30-49: the timer fires; configuration check; getPendingJobs.
TickStart(p) ==
    /\ poller[p].pc = "idle"
    /\ UNCHANGED <<batchJobs, outputBlobs, pipelineRuns, now, env, artifacts, api, jsonl, fan,
                   inputFiles, batches, sub>>
    /\ \/ /\ ~env.openai
          /\ Set(p, [IdlePoller EXCEPT !.outcome = "returned"])
          /\ UNCHANGED faultsLeft
       \/ /\ env.openai /\ ~env.storage
          /\ Set(p, [IdlePoller EXCEPT !.outcome = "thrown"])
          /\ UNCHANGED faultsLeft
       \/ /\ env.openai /\ env.storage
          /\ faultsLeft > 0
          /\ faultsLeft' = faultsLeft - 1
          /\ Set(p, [IdlePoller EXCEPT !.outcome = "thrown"])
       \/ /\ env.openai /\ env.storage
          /\ LET jobs == getPendingJobs(batchJobs) IN
             Set(p, IF jobs = <<>>
                    THEN [IdlePoller EXCEPT !.outcome = "returned"]
                    ELSE [IdlePoller EXCEPT !.pc = "retrieve", !.pendingJobs = jobs,
                                            !.outcome = "running"])
          /\ UNCHANGED faultsLeft
    /\ Track(p)

\* line 53: batches.retrieve rejects, or resolves and the switch runs up to
\* its first await.
Retrieve(p) ==
    LET l == poller[p]
        j == CurJob(l).batchId
    IN  /\ poller[p].pc = "retrieve"
        /\ UNCHANGED <<batchJobs, outputBlobs, pipelineRuns, now, env, artifacts, api, jsonl, fan, faultsLeft,
                       inputFiles, batches, sub>>
        /\ \/ Set(p, Throw([l EXCEPT !.batchStatus = NoAnswer, !.warned = FALSE],
                            "retrieve failed"))
           \/ \E a \in BatchAnswers(j) :
                 Set(p, Switch([l EXCEPT !.batchStatus = a, !.warned = FALSE], now))
        /\ Track(p)

\* lines 105-127: download the output file; parse and transform it.
FilesContent(p) ==
    /\ poller[p].pc = "files.content"
    /\ UNCHANGED <<batchJobs, outputBlobs, pipelineRuns, now, env, artifacts, api, jsonl, fan, faultsLeft,
                   inputFiles, batches, sub>>
    /\ \/ Set(p, Throw(poller[p], "download failed"))
       \/ Set(p, [poller[p] EXCEPT !.pc = "saveResults"])
    /\ Track(p)

\* A processResults that goes on to markCompleted without having saved.
SaveResults_Unwritten(p) ==
    /\ poller[p].pc = "saveResults"
    /\ UNCHANGED <<batchJobs, outputBlobs, pipelineRuns, now, env, artifacts, api, jsonl, fan,
                   inputFiles, batches, sub, faultsLeft>>
    /\ LET job == CurJob(poller[p])
           fileName == OutputFileName(job, now)
       IN  Set(p, Call([poller[p] EXCEPT !.outputPath =
                                     Some(<<OUTPUT_CONTAINER, fileName>>)],
                       "markCompleted"))
    /\ Track(p)

\* saveResults, lines 179-197; then markCompleted is called (line 133).
SaveResults(p) ==
    /\ poller[p].pc = "saveResults"
    /\ UNCHANGED <<batchJobs, pipelineRuns, now, env, artifacts, api, jsonl, fan, inputFiles, batches, sub>>
    /\ \/ StorageFault(p) /\ UNCHANGED outputBlobs
       \/ LET job == CurJob(poller[p])
              fileName == OutputFileName(job, now)
          IN  /\ outputBlobs' = Upload(outputBlobs, fileName,
                                      processedResults(artifacts[job.batchId], job))
              /\ Set(p, Call([poller[p] EXCEPT !.outputPath =
                                         Some(<<OUTPUT_CONTAINER, fileName>>)],
                             "markCompleted"))
              /\ UNCHANGED faultsLeft
    /\ Track(p)

\* moveJob, lines 85-89: read the record under fromFolder, merge the updates.
MoveDownload(p) ==
    LET l == poller[p]
        fromBlob == BlobName(FromFolder(l.call), CurJob(l).batchId)
    IN  /\ l.pc = "moveJob.download"
        /\ UNCHANGED <<batchJobs, outputBlobs, pipelineRuns, now, env, artifacts, api, jsonl, fan,
                       inputFiles, batches, sub>>
        /\ \/ StorageFault(p)
           \/ /\ ~Exists(batchJobs, fromBlob)
              /\ Set(p, Throw(l, "blob not found"))
              /\ UNCHANGED faultsLeft
           \/ /\ Exists(batchJobs, fromBlob)
              /\ Set(p, [l EXCEPT !.pc = "moveJob.upload",
                                  !.buf = Some(Merge(batchJobs[fromBlob], Updates(l, now)))])
              /\ UNCHANGED faultsLeft
        /\ Track(p)

\* A moveJob that goes on to the delete without having written.
MoveUpload_Unwritten(p) ==
    /\ poller[p].pc = "moveJob.upload"
    /\ Set(p, [poller[p] EXCEPT !.pc = "moveJob.delete"])
    /\ UNCHANGED <<batchJobs, outputBlobs, pipelineRuns, now, env, artifacts, api, jsonl, fan, faultsLeft,
                   inputFiles, batches, sub>>
    /\ Track(p)

\* moveJob, lines 91-95: write the record under toFolder.
MoveUpload(p) ==
    LET l == poller[p]
        toBlob == BlobName(ToFolder(l.call), CurJob(l).batchId)
    IN  /\ l.pc = "moveJob.upload"
        /\ UNCHANGED <<outputBlobs, pipelineRuns, now, env, artifacts, api, jsonl, fan, inputFiles, batches, sub>>
        /\ \/ StorageFault(p) /\ UNCHANGED batchJobs
           \/ /\ batchJobs' = Upload(batchJobs, toBlob, l.buf[1])
              /\ Set(p, [l EXCEPT !.pc = "moveJob.delete"])
              /\ UNCHANGED faultsLeft
        /\ Track(p)

\* moveJob, lines 97-98: remove the record under fromFolder and return.
MoveDelete(p) ==
    LET l == poller[p]
        fromBlob == BlobName(FromFolder(l.call), CurJob(l).batchId)
    IN  /\ l.pc = "moveJob.delete"
        /\ UNCHANGED <<outputBlobs, pipelineRuns, now, env, artifacts, api, jsonl, fan, inputFiles, batches, sub>>
        /\ \/ StorageFault(p) /\ UNCHANGED batchJobs
           \/ /\ batchJobs' = Delete(batchJobs, fromBlob)
              /\ Set(p, AfterMove(l))
              /\ UNCHANGED faultsLeft
        /\ Track(p)

\* A notification that asks for the pipeline run twice.
TriggerWriteBackPipeline_Twice(p) ==
    LET l == poller[p] IN
    /\ l.pc = "triggerWriteBackPipeline"
    /\ UNCHANGED <<batchJobs, outputBlobs, now, env, artifacts, api, jsonl, fan, faultsLeft,
                   inputFiles, batches, sub>>
    /\ pipelineRuns' = pipelineRuns \o <<l.outputPath[1][2], l.outputPath[1][2]>>
    /\ Set(p, AfterTrigger(l, TRUE))
    /\ Track(p)

\* triggerWriteBackPipeline, lines 202-238: nothing it does can throw.
TriggerWriteBackPipeline(p) ==
    LET l == poller[p] IN
    /\ l.pc = "triggerWriteBackPipeline"
    /\ UNCHANGED <<batchJobs, outputBlobs, now, env, artifacts, api, jsonl, fan, faultsLeft, inputFiles, batches, sub>>
    /\ \/ ~env.adf /\ UNCHANGED pipelineRuns /\ Set(p, AfterTrigger(l, FALSE))
       \/ /\ env.adf                             \* token error, fetch error, !response.ok
          /\ UNCHANGED pipelineRuns
          /\ Set(p, AfterTrigger(l, FALSE))
       \/ /\ env.adf
          /\ pipelineRuns' = Append(pipelineRuns, l.outputPath[1][2])
          /\ Set(p, AfterTrigger(l, TRUE))
    /\ Track(p)

\* incrementRetry, lines 127-133: read the pending record, add one.
IncrementRetryDownload(p) ==
    LET l == poller[p]
        blob == BlobName("pending", CurJob(l).batchId)
    IN  /\ l.pc = "incrementRetry.download"
        /\ UNCHANGED <<batchJobs, outputBlobs, pipelineRuns, now, env, artifacts, api, jsonl, fan,
                       inputFiles, batches, sub>>
        /\ \/ StorageFault(p)
           \/ /\ ~Exists(batchJobs, blob)
              /\ Set(p, Throw(l, "blob not found"))
              /\ UNCHANGED faultsLeft
           \/ /\ Exists(batchJobs, blob)
              /\ Set(p, [l EXCEPT !.pc = "incrementRetry.upload",
                                  !.buf = Some(RetryIncremented(batchJobs[blob]))])
              /\ UNCHANGED faultsLeft
        /\ Track(p)

\* incrementRetry, lines 135-141, and lines 83-85 of the handler.
IncrementRetryUpload(p) ==
    LET l == poller[p]
        blob == BlobName("pending", CurJob(l).batchId)
    IN  /\ l.pc = "incrementRetry.upload"
        /\ UNCHANGED <<outputBlobs, pipelineRuns, now, env, artifacts, api, jsonl, fan, inputFiles, batches, sub>>
        /\ \/ StorageFault(p) /\ UNCHANGED batchJobs
           \/ /\ batchJobs' = Upload(batchJobs, blob, l.buf[1])
              /\ Set(p, IF RetriesExhausted(l.buf[1])
                        THEN Call(l, "markFailed")
                        ELSE NextJob(l))
              /\ UNCHANGED faultsLeft
        /\ Track(p)

\* The function host dies while the handler is suspended at an await.
Crash(p) ==
    /\ poller[p].pc # "idle"
    /\ faultsLeft > 0
    /\ faultsLeft' = faultsLeft - 1
    /\ Set(p, [IdlePoller EXCEPT !.pendingJobs = poller[p].pendingJobs,
                                 !.idx = poller[p].idx, !.outcome = "crashed"])
    /\ UNCHANGED <<batchJobs, outputBlobs, pipelineRuns, now, env, artifacts, api, jsonl, fan,
                   inputFiles, batches, sub>>
    /\ Track(p)

\* The steps of an invocation after its start.
Steps(p) ==
    \/ Retrieve(p)
    \/ FilesContent(p)
    \/ SaveResults(p)
    \/ MoveDownload(p)
    \/ MoveUpload(p)
    \/ MoveDelete(p)
    \/ TriggerWriteBackPipeline(p)
    \/ IncrementRetryDownload(p)
    \/ IncrementRetryUpload(p)
    \/ Crash(p)

Handler(p) == TickStart(p) \/ Steps(p)

(***************************************************************************)
(* generateInsightsSummary.js: storageBlobTrigger                          *)
(***************************************************************************)
\* A submitter that treats a blob without records like any other.
SubmitUpload_NoEmptyCheck(b) ==
    /\ sub[b] = "new"
    /\ UNCHANGED <<batchJobs, outputBlobs, pipelineRuns, now, env, artifacts, api, jsonl, fan, faultsLeft,
                   batches, poller, history>>
    /\ \/ /\ ~env.openai
          /\ sub' = [sub EXCEPT ![b] = "failed"]
          /\ UNCHANGED inputFiles
       \/ /\ env.openai
          /\ sub' = [sub EXCEPT ![b] = "failed"]
          /\ UNCHANGED inputFiles
       \/ /\ env.openai
          /\ sub' = [sub EXCEPT ![b] = "uploaded"]
          /\ inputFiles' = inputFiles \cup {b}

\* lines 885-918: parse the blob, check the configuration, upload the
\* batch input file.
SubmitUpload(b) ==
    /\ sub[b] = "new"
    /\ UNCHANGED <<batchJobs, outputBlobs, pipelineRuns, now, env, artifacts, api, jsonl, fan, faultsLeft,
                   batches, poller, history>>
    /\ \/ /\ b \notin Jobs                       \* records.length === 0
          /\ sub' = [sub EXCEPT ![b] = "skipped"]
          /\ UNCHANGED inputFiles
       \/ /\ b \in Jobs /\ ~env.openai
          /\ sub' = [sub EXCEPT ![b] = "failed"]
          /\ UNCHANGED inputFiles
       \/ /\ b \in Jobs /\ env.openai            \* files.create rejects
          /\ sub' = [sub EXCEPT ![b] = "failed"]
          /\ UNCHANGED inputFiles
       \/ /\ b \in Jobs /\ env.openai
          /\ sub' = [sub EXCEPT ![b] = "uploaded"]
          /\ inputFiles' = inputFiles \cup {b}

\* A submitter that records the job although batches.create rejected.
SubmitCreate_SavesOnFailure(b) ==
    /\ sub[b] = "uploaded"
    /\ UNCHANGED <<outputBlobs, pipelineRuns, now, env, artifacts, api, jsonl, fan, faultsLeft,
                   inputFiles, poller, history>>
    /\ \/ /\ sub' = [sub EXCEPT ![b] = "failed"]
          /\ batchJobs' = Upload(batchJobs, BlobName("pending", b), NewJob(b, now))
          /\ UNCHANGED batches
       \/ sub' = [sub EXCEPT ![b] = "created"] /\ batches' = batches \cup {b}
                                               /\ UNCHANGED batchJobs

\* lines 920-926: batches.create
SubmitCreate(b) ==
    /\ sub[b] = "uploaded"
    /\ UNCHANGED <<batchJobs, outputBlobs, pipelineRuns, now, env, artifacts, api, jsonl, fan, faultsLeft,
                   inputFiles, poller, history>>
    /\ \/ sub' = [sub EXCEPT ![b] = "failed"] /\ UNCHANGED batches
       \/ sub' = [sub EXCEPT ![b] = "created"] /\ batches' = batches \cup {b}

\* lines 928-936 and createBatchJob, lines 28-52
SubmitSave(b) ==
    /\ sub[b] = "created"
    /\ UNCHANGED <<outputBlobs, pipelineRuns, now, env, artifacts, api, jsonl, fan, inputFiles, batches, poller, history>>
    /\ \/ /\ ~env.storage                        \* getContainer throws
          /\ sub' = [sub EXCEPT ![b] = "failed"]
          /\ UNCHANGED <<batchJobs, faultsLeft>>
       \/ /\ env.storage /\ faultsLeft > 0
          /\ faultsLeft' = faultsLeft - 1
          /\ sub' = [sub EXCEPT ![b] = "failed"]
          /\ UNCHANGED batchJobs
       \/ /\ env.storage
          /\ batchJobs' = Upload(batchJobs, BlobName("pending", b), NewJob(b, now))
          /\ sub' = [sub EXCEPT ![b] = "done"]
          /\ UNCHANGED faultsLeft

Submitter(b) == SubmitUpload(b) \/ SubmitCreate(b) \/ SubmitSave(b)

\* Time passes.  An invocation of the handler lasts minutes (the host's
\* function timeout), so the clock's hours pass between invocations.
ClockAdvance ==
    /\ now + ClockGap <= MaxClock
    /\ \A p \in Pollers : poller[p].pc = "idle"
    /\ now' = now + ClockGap
    /\ UNCHANGED <<batchJobs, outputBlobs, pipelineRuns, env, artifacts, api, jsonl, fan, faultsLeft,
                   inputFiles, batches, sub, poller, history>>

(***************************************************************************)
(* batchJobStorage.js called directly: each step is one whole call of an   *)
(* exported function by a caller that makes its calls one after another.   *)
(***************************************************************************)
Ended(op, j, ok) ==
    api' = [op |-> op, jobId |-> j, held |-> FoldersOf(batchJobs, j),
            outcome |-> IF ok THEN "returned" ELSE "thrown"]

\* createBatchJob, lines 28-52
ApiCreateBatchJob(j) ==
    /\ Ended("createBatchJob", j, env.storage)
    /\ batchJobs' = IF env.storage
                    THEN Upload(batchJobs, BlobName("pending", j), NewJob(j, now))
                    ELSE batchJobs
    /\ UNCHANGED <<outputBlobs, pipelineRuns, now, env, artifacts, jsonl, fan, faultsLeft,
                   inputFiles, batches, sub, poller, history>>

\* The arguments the caller passes to markCompleted, markProcessed, markFailed.
ApiUpdates(j, which, t) ==
    CASE which = "markCompleted" ->
            markCompletedUpdates(Some(OutputFileOf(j)), ErrorFileIdOf(j), t)
      [] which = "markProcessed" ->
            markProcessedUpdates(Some(<<OUTPUT_CONTAINER, OutputFileName(NewJob(j, t), t)>>), t)
      [] OTHER -> markFailedUpdates(<<"Failed">>, t)

\* markCompleted, markProcessed, markFailed, lines 101-124, and moveJob, 83-99
ApiMark(j, which) ==
    LET fromBlob == BlobName(FromFolder(which), j)
        toBlob == BlobName(ToFolder(which), j)
        ok == env.storage /\ Exists(batchJobs, fromBlob)
    IN  /\ Ended(which, j, ok)
        /\ batchJobs' = IF ok
                        THEN Delete(Upload(batchJobs, toBlob,
                                           Merge(batchJobs[fromBlob], ApiUpdates(j, which, now))),
                                    fromBlob)
                        ELSE batchJobs
        /\ UNCHANGED <<outputBlobs, pipelineRuns, now, env, artifacts, jsonl, fan, faultsLeft,
                       inputFiles, batches, sub, poller, history>>

\* incrementRetry, lines 126-142
ApiIncrementRetry(j) ==
    LET blob == BlobName("pending", j)
        ok == env.storage /\ Exists(batchJobs, blob)
    IN  /\ ok => batchJobs[blob].retryCount < MAX_RETRIES
        /\ Ended("incrementRetry", j, ok)
        /\ batchJobs' = IF ok
                        THEN Upload(batchJobs, blob, RetryIncremented(batchJobs[blob]))
                        ELSE batchJobs
        /\ UNCHANGED <<outputBlobs, pipelineRuns, now, env, artifacts, jsonl, fan, faultsLeft,
                       inputFiles, batches, sub, poller, history>>

(***************************************************************************)
(* Specifications                                                          *)
(***************************************************************************)
\* The job store under one invocation of the timer handler at a time.
Next ==
    \/ \E b \in Jobs : SubmitSave(b)
    \/ Handler("p1")
    \/ ClockAdvance

Spec == Init /\ [][Next]_vars

\* Two jobs under one invocation of the timer handler at a time, within the
\* first hours after their submission.
NextTwo == Handler("p1")

SpecTwo == InitTwo /\ [][NextTwo]_vars

\* One job under two invocations of the timer handler that may overlap: the
\* timer fires again while the invocation before it is still at an await.
\* Each of the two runs once.
RunOnce(p) == poller[p].outcome = "none" /\ TickStart(p)

NextOverlap == \E p \in Pollers : RunOnce(p) \/ Steps(p)

SpecOverlap == InitOverlap /\ [][NextOverlap]_vars

\* One invocation of the timer handler over one job, for every output file.
NextReconcile == RunOnce("p1") \/ Steps("p1")

SpecReconcile == InitReconcile /\ [][NextReconcile]_vars

\* The job store alone, empty at first, under a caller of its exported
\* functions; the storage connection string may be missing.
StoreJobs == {"b1"}

InitStore ==
    /\ batchJobs = <<>>
    /\ artifacts = [j \in Jobs |-> OutputContentOf(j)]
    /\ outputBlobs = <<>>
    /\ pipelineRuns = <<>>
    /\ now = 0
    /\ env \in {e \in EnvSettings : e.openai /\ e.adf}
    /\ faultsLeft = 0
    /\ inputFiles = {}
    /\ batches = {}
    /\ sub = [b \in Blobs |-> "skipped"]
    /\ poller = [p \in Pollers |-> IdlePoller]
    /\ api = NoCall
    /\ fan = NoFanOut
    /\ jsonl = NoJsonl
    /\ history = [j \in Jobs |-> NoHistory]

NextStore ==
    \E j \in StoreJobs :
        \/ ApiCreateBatchJob(j)
        \/ \E which \in {"markCompleted", "markProcessed", "markFailed"} : ApiMark(j, which)
        \/ ApiIncrementRetry(j)

SpecStore == InitStore /\ [][NextStore]_vars

\* The three components under every combination of settings: one job is
\* pending, the blob trigger fires for two more blobs, the timer fires, and
\* the exported functions of the job store are called for the pending job.
InitConfig ==
    /\ batchJobs = (BlobName("pending", "b1") :> NewJob("b1", 0))
    /\ artifacts = [j \in Jobs |-> OutputContentOf(j)]
    /\ outputBlobs = <<>>
    /\ pipelineRuns = <<>>
    /\ now = 0
    /\ env \in EnvSettings
    /\ faultsLeft = 0
    /\ inputFiles = {"b1"}
    /\ batches = {"b1"}
    /\ sub = [b \in Blobs |-> IF b = "b1" THEN "done" ELSE "new"]
    /\ poller = [p \in Pollers |-> IdlePoller]
    /\ api = NoCall
    /\ fan = NoFanOut
    /\ jsonl = NoJsonl
    /\ history = [j \in Jobs |-> NoHistory]

NextConfig ==
    \/ \E b \in Blobs : Submitter(b)
    \/ TickStart("p1")
    \/ NextStore

SpecConfig == InitConfig /\ [][NextConfig]_vars

\* createBatchJsonl alone, run on every dataset of at most MaxRecords records.
InitJsonl ==
    /\ batchJobs = <<>>
    /\ artifacts = [j \in Jobs |-> OutputContentOf(j)]
    /\ outputBlobs = <<>>
    /\ pipelineRuns = <<>>
    /\ now = 0
    /\ env = AllSet
    /\ faultsLeft = 0
    /\ inputFiles = {}
    /\ batches = {}
    /\ sub = [b \in Blobs |-> "new"]
    /\ poller = [p \in Pollers |-> IdlePoller]
    /\ api = NoCall
    /\ fan = NoFanOut
    /\ jsonl \in {[records |-> d, documents |-> <<>>] : d \in Datasets}
    /\ history = [j \in Jobs |-> NoHistory]

CreateBatchJsonl ==
    /\ Len(jsonl.documents) < MaxRuns
    /\ jsonl' = [jsonl EXCEPT !.documents = Append(@, createBatchJsonl(jsonl.records))]
    /\ UNCHANGED <<batchJobs, outputBlobs, pipelineRuns, now, env, artifacts, fan, api,
                   faultsLeft, inputFiles, batches, sub, poller, history>>

NextJsonl == CreateBatchJsonl

SpecJsonl == InitJsonl /\ [][NextJsonl]_vars

\* processBatches alone, on every record list of at most MaxFanRecords
\* records and every batch size up to MaxBatchSize.
InitFanOut ==
    /\ batchJobs = <<>>
    /\ artifacts = [j \in Jobs |-> OutputContentOf(j)]
    /\ outputBlobs = <<>>
    /\ pipelineRuns = <<>>
    /\ now = 0
    /\ env = AllSet
    /\ faultsLeft = 0
    /\ inputFiles = {}
    /\ batches = {}
    /\ sub = [b \in Blobs |-> "new"]
    /\ poller = [p \in Pollers |-> IdlePoller]
    /\ api = NoCall
    /\ jsonl = NoJsonl
    /\ fan \in {[NoFanOut EXCEPT !.pc = "loop",
                                  !.records = [i \in 1..n |-> FanRecord(i)],
                                  !.batchSize = size] :
                   n \in 0..MaxFanRecords, size \in 1..MaxBatchSize}
    /\ history = [j \in Jobs |-> NoHistory]

FanFrame ==
    UNCHANGED <<batchJobs, outputBlobs, pipelineRuns, now, env, artifacts, api, jsonl,
                faultsLeft, inputFiles, batches, sub, poller, history>>

\* The for loop: the calls of the next chunk are started, or the function
\* returns allResults.
FanLoop ==
    LET chunks == chunkArray(fan.records, fan.batchSize) IN
    /\ fan.pc = "loop"
    /\ fan' = IF fan.batchIndex < Len(chunks)
              THEN [fan EXCEPT !.pc = "await",
                               !.calls = [i \in 1..Len(chunks[fan.batchIndex + 1]) |->
                                            "pending"]]
              ELSE [fan EXCEPT !.pc = "returned"]
    /\ FanFrame

\* One call of the chunk fulfils or rejects.
FanSettle(i) ==
    /\ fan.pc = "await"
    /\ i \in 1..Len(fan.calls)
    /\ fan.calls[i] = "pending"
    /\ \E how \in {"fulfilled", "rejected"} :
          fan' = [fan EXCEPT !.calls[i] = how, !.settled = Append(@, how)]
    /\ FanFrame

\* await Promise.all(batchPromises); allResults.push(...batchResults)
FanJoin ==
    LET chunks == chunkArray(fan.records, fan.batchSize) IN
    /\ fan.pc = "await"
    /\ \A i \in 1..Len(fan.calls) : fan.calls[i] # "pending"
    /\ fan' = [fan EXCEPT !.pc = "loop", !.batchIndex = @ + 1, !.calls = <<>>,
                          !.allResults = @ \o JoinAll(chunks[fan.batchIndex + 1], fan.calls)]
    /\ FanFrame

NextFanOut ==
    \/ FanLoop
    \/ \E i \in 1..MaxBatchSize : FanSettle(i)
    \/ FanJoin

SpecFanOut == InitFanOut /\ [][NextFanOut]_vars

\* The blob trigger alone.
NextSubmit ==
    \/ \E b \in Blobs : Submitter(b)
    \/ ClockAdvance

SpecSubmit == InitSubmit /\ [][NextSubmit]_vars

(***************************************************************************)
(* Properties                                                              *)
(***************************************************************************)
\* The status of job j as getJob reports it; "none" when getJob returns null.
StatusIn(container, j) ==
    LET r == getJob(container, j) IN IF r = Null THEN "none" ELSE r[1].status

\* The handler is between two jobs: nothing is half done.
Settled == \A p \in Pollers : poller[p].pc \in {"idle", "retrieve"}

\* No storage call has rejected and the host has not died so far.
NoFaultSoFar == faultsLeft = MaxFaults

StatusEdges ==
    {<<"none", "pending">>, <<"pending", "completed">>,
     <<"completed", "processed">>, <<"pending", "failed">>}

\* C1: when handler invocations run one after another, the status of a job
\* as getJob reports it changes only by creation (none -> pending) and along
\* pending -> completed, completed -> processed and pending -> failed; a
\* record under processed/ or failed/ is never removed; a job that has left
\* pending/ never has a record there again.
C1_StatusEdges ==
    [][\A j \in Jobs :
         LET a == StatusIn(batchJobs, j)
             b == StatusIn(batchJobs', j)
         IN  /\ a # b => <<a, b>> \in StatusEdges
             /\ \A f \in {"processed", "failed"} :
                   Exists(batchJobs, BlobName(f, j)) => Exists(batchJobs', BlobName(f, j))
             /\ (a # "none" /\ ~Exists(batchJobs, BlobName("pending", j)))
                   => ~Exists(batchJobs', BlobName("pending", j))]_vars

\* A job has gone pending -> completed -> processed.
C1_Witness ==
    \E j \in Jobs :
        /\ StatusIn(batchJobs, j) = "processed"
        /\ history[j].completed /\ history[j].processed

\* C2: an invocation that has ended, by returning or by throwing, has
\* handled every job it listed.
C2_FaultIsolation ==
    \A p \in Pollers :
        (poller[p].pc = "idle" /\ poller[p].outcome \in {"returned", "thrown"})
            => poller[p].idx > Len(poller[p].pendingJobs)

\* C3: take a job whose rejected status queries are all in a row up to now
\* (k of them), for which nothing else was caught at line 80, with no storage
\* fault and no crash so far.  Between handlings: k <= MAX_RETRIES; if
\* k < MAX_RETRIES the job is pending with retryCount = k; if k = MAX_RETRIES
\* it is failed and has no record under pending/.
C3_RetryBound ==
    \A j \in Jobs :
        LET h == history[j]
            k == h.streak
            pend == BlobName("pending", j)
        IN  (NoFaultSoFar /\ Settled /\ k > 0 /\ h.failed = k /\ h.other = 0)
            => /\ k <= MAX_RETRIES
               /\ k < MAX_RETRIES =>
                     /\ Exists(batchJobs, pend)
                     /\ StatusIn(batchJobs, j) = "pending"
                     /\ batchJobs[pend].retryCount = k
               /\ k = MAX_RETRIES =>
                     /\ ~Exists(batchJobs, pend)
                     /\ StatusIn(batchJobs, j) = "failed"

\* Three status queries in a row were rejected, and the job is failed.
C3_Witness ==
    \E j \in Jobs :
        /\ NoFaultSoFar /\ Settled
        /\ history[j].streak = MAX_RETRIES /\ history[j].failed = MAX_RETRIES
        /\ history[j].other = 0
        /\ StatusIn(batchJobs, j) = "failed"

\* C4: between handlings, with no storage fault, no crash and nothing caught
\* at line 80 but rejected status queries, the retryCount of a pending job is
\* the number of its status queries rejected in a row up to now.
C4_ConsecutiveCount ==
    \A j \in Jobs :
        (/\ NoFaultSoFar /\ Settled /\ history[j].other = 0
         /\ Exists(batchJobs, BlobName("pending", j)))
        => batchJobs[BlobName("pending", j)].retryCount = history[j].streak

\* C5: no job is under failed/ because the download of its output file
\* failed.
C5_DownloadFailureKeepsPending ==
    \A j \in Jobs :
        Exists(batchJobs, BlobName("failed", j))
        => batchJobs[BlobName("failed", j)].errorMessage
              # Some(MaxRetriesMessage(Some("download failed")))

\* C6: from the return of a markCompleted call for a job until the return of
\* a markProcessed call for it, whatever happens in between (a throw, a dead
\* host, later invocations), getJob finds the job's record under completed/,
\* with status completed and no outputBlobPath.
C6_CompletedObservable ==
    \A j \in Jobs :
        LET comp == BlobName("completed", j) IN
        (history[j].completed /\ ~history[j].processed)
        => /\ Exists(batchJobs, comp)
           /\ getJob(batchJobs, j) = Some(batchJobs[comp])
           /\ batchJobs[comp].status = "completed"
           /\ batchJobs[comp].outputBlobPath = Null

\* The invocation ended between the two calls, and others have run since.
C6_Witness ==
    \E j \in Jobs :
        /\ history[j].completed /\ ~history[j].processed
        /\ StatusIn(batchJobs, j) = "completed"
        /\ poller["p1"].pc = "idle" /\ poller["p1"].outcome = "returned"

\* C7: the jobs an invocation has listed are all the jobs that getJob
\* reports as pending or completed.
C7_ScansNonTerminal ==
    \A p \in Pollers :
        LET l == poller[p] IN
        (l.pc = "retrieve" /\ l.idx = 1)
        => \A j \in Jobs :
              StatusIn(batchJobs, j) \in {"pending", "completed"}
              => \E i \in 1..Len(l.pendingJobs) : l.pendingJobs[i].batchId = j

\* C8: while one invocation at a time handles a job whose batch is completed
\* with an output file, and neither the download nor a storage call has
\* failed in this handling: nothing is caught at line 80; while markProcessed
\* runs the record is under completed/ with the batch's outputFileId and
\* errorFileId and a completedAt; when the pipeline is triggered getJob finds
\* the record under processed/, status processed, with the outputBlobPath
\* that saveResults returned.
C8_CleanCompletion ==
    \A p \in Pollers :
        LET l == poller[p] IN
        (/\ l.pc # "idle" /\ l.batchStatus.status = "completed"
         /\ l.batchStatus.output_file_id # Null
         /\ ~l.faulted /\ l.err # Some("download failed"))
        => LET j == CurJob(l).batchId
               comp == BlobName("completed", j)
               proc == BlobName("processed", j)
           IN  /\ ~l.inCatch
               /\ (l.call = "markProcessed" /\ l.pc # "triggerWriteBackPipeline")
                  => /\ Exists(batchJobs, comp)
                     /\ getJob(batchJobs, j) = Some(batchJobs[comp])
                     /\ batchJobs[comp].status = "completed"
                     /\ batchJobs[comp].outputFileId = l.batchStatus.output_file_id
                     /\ batchJobs[comp].errorFileId = l.batchStatus.error_file_id
                     /\ batchJobs[comp].completedAt # Null
               /\ l.pc = "triggerWriteBackPipeline"
                  => /\ Exists(batchJobs, proc)
                     /\ getJob(batchJobs, j) = Some(batchJobs[proc])
                     /\ batchJobs[proc].status = "processed"
                     /\ l.outputPath # Null
                     /\ batchJobs[proc].outputBlobPath = l.outputPath
                     /\ batchJobs[proc].outputFileId = l.batchStatus.output_file_id
                     /\ batchJobs[proc].errorFileId = l.batchStatus.error_file_id
                     /\ batchJobs[proc].completedAt # Null

\* A handling in which nothing failed has reached the pipeline trigger.
C8_Witness ==
    LET l == poller["p1"] IN
    /\ l.pc = "triggerWriteBackPipeline" /\ ~l.faulted
    /\ StatusIn(batchJobs, CurJob(l).batchId) = "processed"

\* getJob reports the job failed (its only record is under failed/), for a
\* reason the batch service gave.
RemotelyFailed(container, j) ==
    /\ StatusIn(container, j) = "failed"
    /\ Exists(container, BlobName("failed", j))
    /\ \E a \in BatchAnswers(j) :
          /\ a.status \in {"failed", "expired", "cancelled"}
          /\ container[BlobName("failed", j)].errorMessage = Some(RemoteFailureMessage(a))

\* While a job whose batch is failed, expired or cancelled is handled and no
\* storage call has failed: nothing is caught at line 80 and markFailed runs;
\* once written, the record under failed/ has status failed, the service's
\* message or "Batch <status>" as errorMessage, completedAt = now and the
\* retryCount of the pending record.
C9_Handling ==
    \A p \in Pollers :
        LET l == poller[p] IN
        (/\ l.pc # "idle" /\ ~l.faulted
         /\ l.batchStatus.status \in {"failed", "expired", "cancelled"})
        => LET j == CurJob(l).batchId
               pend == BlobName("pending", j)
               fail == BlobName("failed", j)
           IN  /\ ~l.inCatch /\ l.call = "markFailed"
               /\ l.pc \in {"moveJob.download", "moveJob.upload", "moveJob.delete"}
               /\ Exists(batchJobs, pend)
               /\ l.pc = "moveJob.delete"
                  => /\ Exists(batchJobs, fail)
                     /\ batchJobs[fail].status = "failed"
                     /\ batchJobs[fail].errorMessage = Some(RemoteFailureMessage(l.batchStatus))
                     /\ batchJobs[fail].errorMessage[1] # <<>>
                     /\ batchJobs[fail].completedAt = Some(now)
                     /\ batchJobs[fail].retryCount = batchJobs[pend].retryCount

\* C9: a job with a record under pending/ and none under completed/ or
\* processed/, whose batch is failed, expired or cancelled, is moved to
\* failed by the handling that sees it (C9_Handling, and the last step of
\* markFailed leaves the job under failed/ only); it is then in no later
\* listing and its records never change again.
C9_RemoteFailure ==
    [][/\ C9_Handling'
       /\ \A p \in Pollers :
             LET l == poller[p] IN
             (/\ l.pc = "moveJob.delete" /\ ~l.inCatch /\ l.call = "markFailed"
              /\ ~Exists(batchJobs, BlobName("completed", CurJob(l).batchId))
              /\ ~Exists(batchJobs, BlobName("processed", CurJob(l).batchId))
              /\ batchJobs' # batchJobs)
             => RemotelyFailed(batchJobs', CurJob(l).batchId)
       /\ \A j \in Jobs :
             RemotelyFailed(batchJobs, j)
             => /\ \A f \in 1..Len(Folders) :
                      /\ Exists(batchJobs', BlobName(Folders[f], j))
                            = Exists(batchJobs, BlobName(Folders[f], j))
                      /\ Exists(batchJobs, BlobName(Folders[f], j))
                            => batchJobs'[BlobName(Folders[f], j)]
                                  = batchJobs[BlobName(Folders[f], j)]
                /\ \A p \in Pollers :
                      \A i \in 1..Len(poller'[p].pendingJobs) :
                         (poller'[p].pc # "idle" /\ i >= poller'[p].idx)
                         => poller'[p].pendingJobs[i].batchId # j]_vars

\* An expired batch: the job is failed, never retried, the invocation over.
C9_Witness ==
    \E j \in Jobs :
        /\ RemotelyFailed(batchJobs, j)
        /\ batchJobs[BlobName("failed", j)].errorMessage = Some(<<"Batch ", "expired">>)
        /\ batchJobs[BlobName("failed", j)].retryCount = 0
        /\ poller["p1"].pc = "idle" /\ poller["p1"].outcome = "returned"

\* C10: the step of the handler that sees a batch validating, in_progress or
\* finalizing changes no record, writes no output, triggers no pipeline and
\* goes on to the next job; it warns exactly when the job was submitted more
\* than STUCK_HOURS ago.
C10_RunningUnchanged ==
    [][\A p \in Pollers :
         LET l == poller[p]
             m == poller'[p]
         IN  (l.pc = "retrieve" /\ m.batchStatus.status \in RunningStatuses)
             => /\ batchJobs' = batchJobs
                /\ outputBlobs' = outputBlobs
                /\ pipelineRuns' = pipelineRuns
                /\ m.pc \in {"retrieve", "idle"}
                /\ m.idx = l.idx + 1
                /\ ~m.inCatch /\ m.call = "none"
                /\ m.warned = (now - CurJob(l).submittedAt > STUCK_HOURS)]_vars

\* A job submitted 26 hours ago was seen still running: a warning, and the
\* record is as createBatchJob wrote it.
C10_Witness ==
    \E j \in Jobs :
        /\ poller["p1"].warned
        /\ poller["p1"].batchStatus.status \in RunningStatuses
        /\ poller["p1"].pendingJobs[poller["p1"].idx - 1].batchId = j
        /\ Exists(batchJobs, BlobName("pending", j))
        /\ batchJobs[BlobName("pending", j)] = NewJob(j, 0)
        /\ now > STUCK_HOURS

\* C11: incrementRetry runs only for a rejected status query; so, with no
\* storage fault and no crash so far, the retryCount of a pending job between
\* handlings is the number of its rejected status queries.
C11_RetryOnlyForQueryFailure ==
    /\ \A p \in Pollers :
          poller[p].pc \in {"incrementRetry.download", "incrementRetry.upload"}
          => poller[p].err = Some("retrieve failed")
    /\ \A j \in Jobs :
          (NoFaultSoFar /\ Settled /\ Exists(batchJobs, BlobName("pending", j)))
          => batchJobs[BlobName("pending", j)].retryCount = history[j].failed

\* A number as a template literal renders it.
Str(n) == <<"0", "1", "2", "3", "4", "5", "6", "7", "8", "9">>[n + 1]

\* C12: the errorMessage that markFailed is given in the catch at line 80
\* has the record's retryCount and the message of the caught error among its
\* parts.
C12_MessageNamesCount ==
    \A p \in Pollers :
        LET l == poller[p] IN
        (l.call = "markFailed" /\ l.inCatch /\ l.buf # Null)
        => LET msg == l.buf[1].errorMessage[1] IN
           /\ \E i \in 1..Len(msg) : msg[i] = l.err[1]
           /\ \E i \in 1..Len(msg) : msg[i] = Str(l.buf[1].retryCount)


\* A moveJob for job j has written the new record and not yet removed the old.
MidMove(j) ==
    \E p \in Pollers :
        poller[p].pc = "moveJob.delete" /\ CurJob(poller[p]).batchId = j

C14_Written ==
    /\ \A j \in Jobs : sub[j] = "done" => FoldersOf(batchJobs, j) # {}
    /\ \A p \in Pollers :
          LET l == poller[p]
              j == CurJob(l).batchId
          IN  /\ l.pc = "moveJob.upload" => Exists(batchJobs, BlobName(FromFolder(l.call), j))
              /\ l.pc = "moveJob.delete"
                 => /\ Exists(batchJobs, BlobName(FromFolder(l.call), j))
                    /\ Exists(batchJobs, BlobName(ToFolder(l.call), j))
                    /\ batchJobs[BlobName(ToFolder(l.call), j)] = l.buf[1]

\* C14: while handler invocations run one after another, C14_Written holds
\* after every step; a step that removes a record of a job is taken when the
\* job already has another record; a host that dies between the write and the
\* delete of a moveJob leaves the job with the old and the new record.
C14_NeverLost ==
    [][/\ C14_Written'
       /\ \A j \in Jobs :
             \A f \in FoldersOf(batchJobs, j) \ FoldersOf(batchJobs', j) :
                FoldersOf(batchJobs, j) \ {f} # {}
       /\ \A p \in Pollers :
             LET l == poller[p] IN
             (/\ l.pc = "moveJob.delete"
              /\ poller'[p].pc = "idle" /\ poller'[p].outcome = "crashed")
             => {FromFolder(l.call), ToFolder(l.call)}
                   \subseteq FoldersOf(batchJobs', CurJob(l).batchId)]_vars

\* The host died between the write and the delete: two records.
C14_Witness ==
    \E j \in Jobs :
        /\ poller["p1"].pc = "idle" /\ poller["p1"].outcome = "crashed"
        /\ Cardinality(FoldersOf(batchJobs, j)) = 2

\* Every invocation that has started is over.
AllOver == \A p \in Pollers : poller[p].pc = "idle"

\* C15: when two invocations that overlap have handled the same pending job
\* and both are over, with no storage fault and no crash, the job has a
\* record in exactly one folder; and no step takes the status getJob reports
\* along another edge than pending -> completed, completed -> processed,
\* pending -> failed.
C15_ToleratesOverlap ==
    [][/\ (AllOver' /\ faultsLeft' = MaxFaults)
          => \A j \in Jobs : sub[j] = "done" => Cardinality(FoldersOf(batchJobs', j)) = 1
       /\ \A j \in Jobs :
             LET a == StatusIn(batchJobs, j)
                 b == StatusIn(batchJobs', j)
             IN  a # b => <<a, b>> \in StatusEdges]_vars

\* C16: while only one invocation has ever started, the retryCount of the
\* pending record is the number of incrementRetry calls that have returned
\* for the job; with two invocations it is never more than that number (and
\* can be less: C16_LostUpdate).
C16_RetryCountSinglePoller ==
    \A j \in Jobs :
        Exists(batchJobs, BlobName("pending", j))
        => /\ (\E p \in Pollers : poller[p].pc = "idle" /\ poller[p].outcome = "none")
              => batchJobs[BlobName("pending", j)].retryCount = history[j].retried
           /\ batchJobs[BlobName("pending", j)].retryCount <= history[j].retried

\* Two invocations overlapped, each completed an incrementRetry call for the
\* job, no storage call failed, and retryCount went up by one only.
C16_LostUpdate ==
    \E j \in Jobs :
        /\ AllOver /\ faultsLeft = MaxFaults
        /\ \A p \in Pollers : poller[p].outcome = "returned"
        /\ Exists(batchJobs, BlobName("pending", j))
        /\ history[j].retried = 2
        /\ batchJobs[BlobName("pending", j)].retryCount = 1

\* The records of the result files written for job j, and the entries parsed
\* from the output file of its batch.
Persisted(j) == {n \in DOMAIN outputBlobs : n[1] = InputBlobPathOf(j)[2]}
PersistedIds(n) == {outputBlobs[n][i].ParentObjectId__c : i \in 1..Len(outputBlobs[n])}
Parsed(j) == parseJsonl(artifacts[j])
EntriesOf(j, kinds) ==
    {Parsed(j)[i].custom_id :
        i \in {k \in 1..Len(Parsed(j)) :
                  <<Parsed(j)[k].kind, Parsed(j)[k].content>> \in kinds}}

\* C17: every parsed entry of the output file that carries a per-record error
\* has a result with its custom_id in each result file written for the job.
C17_ErrorEntriesPersisted ==
    \A j \in Jobs : \A n \in Persisted(j) :
        EntriesOf(j, {<<"error", "none">>}) \subseteq PersistedIds(n)

\* C18: every parsed entry without an error whose content is not a JSON object
\* has a result with its custom_id in each result file written for the job.
C18_UnparsedEntriesPersisted ==
    \A j \in Jobs : \A n \in Persisted(j) :
        EntriesOf(j, {<<"entry", "text">>, <<"entry", "none">>}) \subseteq PersistedIds(n)

\* C19: a result file written for a job holds one result for each line of the
\* output file that parses as JSON, and a job whose batch completed with an
\* output file reaches processed however many lines do not parse.
C19_OneResultPerParsedLine ==
    \A j \in Jobs :
        /\ \A n \in Persisted(j) : Len(outputBlobs[n]) = Len(Parsed(j))
        /\ history[j].processed => Persisted(j) # {}

\* C20: reconciling a job again writes the result file of the first run
\* again: a job never has two result files.
C20_OneResultFile ==
    \A j \in Jobs : Cardinality(Persisted(j)) <= 1

\* C21: the step that notifies the pipeline changes no job record (so the
\* job stays under processed/ with its retryCount), never enters the catch
\* block of the job, starts at most one pipeline run, and the handler goes on
\* to the next job or returns, whether the notification succeeded or not.
C21_NotificationFireAndForget ==
    [][\A p \in Pollers :
          (poller[p].pc = "triggerWriteBackPipeline" /\ poller'[p] # poller[p])
          => LET j == CurJob(poller[p]).batchId IN
             /\ batchJobs' = batchJobs
             /\ StatusIn(batchJobs', j) = "processed"
             /\ ~poller'[p].inCatch
             /\ poller'[p].pc \in {"retrieve", "idle"}
             /\ poller'[p].outcome # "thrown"
             /\ history'[j] = history[j]
             /\ Len(pipelineRuns') <= Len(pipelineRuns) + 1]_vars

\* The notification failed or was skipped: the handler has returned, no
\* pipeline run was started, and the job is processed with retryCount 0.
C21_Witness ==
    \E j \in Jobs :
        /\ poller["p1"].pc = "idle" /\ poller["p1"].outcome = "returned"
        /\ history[j].processed /\ pipelineRuns = <<>>
        /\ StatusIn(batchJobs, j) = "processed"
        /\ batchJobs[BlobName("processed", j)].retryCount = 0

\* C22: a createBatchJob call for a job that already has a record under any
\* folder throws and leaves the store as it was; a call for a job without a
\* record writes the new record under pending/.
C22_CreateRejectsExisting ==
    [][\A j \in Jobs :
          (api'.op = "createBatchJob" /\ api'.jobId = j /\ env.storage)
          => IF FoldersOf(batchJobs, j) # {}
             THEN api'.outcome = "thrown" /\ batchJobs' = batchJobs
             ELSE /\ api'.outcome = "returned"
                  /\ FoldersOf(batchJobs', j) = {"pending"}
                  /\ batchJobs'[BlobName("pending", j)] = NewJob(j, now)]_vars

\* C23: a job has a record only if its input file was uploaded, its batch was
\* created and createBatchJob returned; a submission that failed at the
\* upload or at batches.create has no record under any folder.
C23_FailedSubmissionLeavesNoRecord ==
    \A b \in Jobs :
        /\ FoldersOf(batchJobs, b) # {}
           => sub[b] = "done" /\ b \in inputFiles /\ b \in batches
        /\ (sub[b] = "failed" /\ b \notin batches) => FoldersOf(batchJobs, b) = {}

\* The upload succeeded and batches.create rejected: the input file exists
\* and no job record refers to it.
C23_Witness ==
    \E b \in Jobs :
        /\ sub[b] = "failed" /\ b \in inputFiles /\ b \notin batches
        /\ \A n \in DOMAIN batchJobs : batchJobs[n].inputFileId # <<"input-file", b>>

\* C24: when the blob trigger has submitted a blob of n >= 1 records, the job
\* has one record, under pending/, with status pending, retryCount 0,
\* recordCount n and completedAt, outputFileId and errorMessage null; the
\* store is written by createBatchJob only, in the step that ends the
\* submission.
C24_SubmittedRecord ==
    [][\A b \in Jobs :
          /\ (sub'[b] = "done")
             => /\ FoldersOf(batchJobs', b) = {"pending"}
                /\ LET r == batchJobs'[BlobName("pending", b)] IN
                   /\ r.batchId = b /\ r.status = "pending" /\ r.retryCount = 0
                   /\ RecordCountOf(b) >= 1 /\ r.recordCount = RecordCountOf(b)
                   /\ r.completedAt = Null /\ r.outputFileId = Null
                   /\ r.errorMessage = Null
          /\ (FoldersOf(batchJobs', b) # FoldersOf(batchJobs, b)
              \/ (sub[b] = "done" /\ batchJobs'[BlobName("pending", b)]
                                       # batchJobs[BlobName("pending", b)]))
             => sub[b] = "created" /\ sub'[b] = "done"]_vars

\* A blob of three records has been submitted.
C24_Witness ==
    \E b \in Jobs :
        /\ sub[b] = "done" /\ RecordCountOf(b) = 3
        /\ batchJobs[BlobName("pending", b)].recordCount = 3

\* C25: for a blob that parses to no record the blob trigger returns without
\* an error and has uploaded no input file, created no batch and written no
\* job record.
C25_EmptyInputIsNoOp ==
    \A b \in Blobs \ Jobs :
        /\ sub[b] \in {"new", "skipped"}
        /\ b \notin inputFiles /\ b \notin batches
        /\ \A n \in DOMAIN batchJobs : n[2] # b

\* The trigger has fired for the empty blob and returned, whether or not the
\* remote service is configured.
C25_Witness ==
    \E b \in Blobs \ Jobs : sub[b] = "skipped" /\ ~env.openai /\ inputFiles = {}

\* C26: without the OpenAI endpoint or key, no step of the blob trigger or of
\* the timer handler uploads an input file, creates a batch or changes the
\* job store, and the timer handler stops at once; without the storage
\* connection string, every call of a job store function throws and no step
\* at all changes a job record.
C26_ConfigurationStopsFirst ==
    [][/\ ~env.openai
          => /\ inputFiles' = inputFiles /\ batches' = batches
             /\ (sub' # sub \/ poller' # poller) => batchJobs' = batchJobs
             /\ \A p \in Pollers : poller'[p].pc = "idle"
       /\ ~env.storage
          => /\ batchJobs' = batchJobs
             /\ api' # api => api'.outcome = "thrown"
             /\ \A p \in Pollers : poller'[p].pc = "idle"]_vars

\* Nothing is configured: the blob trigger has failed for a blob with
\* records, the timer handler has returned, a call of incrementRetry has
\* thrown, and the pending record is as it was written.
C26_Witness ==
    /\ ~env.openai /\ ~env.storage
    /\ sub["b2"] = "failed" /\ inputFiles = {"b1"} /\ batches = {"b1"}
    /\ poller["p1"].outcome = "returned"
    /\ api.op = "incrementRetry" /\ api.held = {"pending"} /\ api.outcome = "thrown"
    /\ batchJobs = (BlobName("pending", "b1") :> NewJob("b1", 0))

ResultFields == {"outputFileId", "errorFileId", "outputBlobPath", "errorMessage"}

\* C27: in every record of the store outputFileId and errorFileId are set
\* only with status completed or processed, outputBlobPath only with status
\* processed and errorMessage only with status failed; a result field that
\* is set in a record keeps its value as long as the record exists.
C27_ResultFieldsByStatus ==
    [][/\ \A n \in DOMAIN batchJobs' :
             LET r == batchJobs'[n] IN
             /\ (r.outputFileId # Null \/ r.errorFileId # Null)
                => r.status \in {"completed", "processed"}
             /\ r.outputBlobPath # Null => r.status = "processed"
             /\ r.errorMessage # Null => r.status = "failed"
       /\ \A n \in DOMAIN batchJobs \cap DOMAIN batchJobs' : \A f \in ResultFields :
             batchJobs[n][f] # Null => batchJobs'[n][f] = batchJobs[n][f]]_vars

\* C28: a moveJob that finds no record under its from folder throws and
\* leaves the store unchanged (as does a host that dies during the call); a
\* moveJob that finds the record writes under its to folder that record with
\* the fields of updates replaced and all other fields as read, and writes
\* nothing else.
C28_MoveJob ==
    [][\A p \in Pollers :
          LET l == poller[p]
              m == poller'[p]
              j == CurJob(l).batchId
              fromBlob == BlobName(FromFolder(l.call), j)
              toBlob == BlobName(ToFolder(l.call), j)
          IN  /\ (l.pc = "moveJob.download" /\ m # l)
                 => /\ batchJobs' = batchJobs
                    /\ IF Exists(batchJobs, fromBlob)
                       THEN m.pc = "moveJob.upload"
                            => \A f \in DOMAIN batchJobs[fromBlob] :
                                  m.buf[1][f] = IF f \in DOMAIN Updates(l, now)
                                                THEN Updates(l, now)[f]
                                                ELSE batchJobs[fromBlob][f]
                       ELSE m.pc \notin {"moveJob.upload", "moveJob.delete"}
                            /\ (m.inCatch \/ m.outcome \in {"thrown", "crashed"})
              /\ (l.pc = "moveJob.upload" /\ m # l)
                 => \/ batchJobs' = batchJobs /\ m.pc # "moveJob.delete"
                    \/ batchJobs' = Upload(batchJobs, toBlob, l.buf[1])]_vars

\* A markX call found no record under pending/ (another invocation had moved
\* it): the call threw, the catch block is entered, and the job still has its
\* one record under failed/.
C28_Witness ==
    \E p \in Pollers :
        /\ poller[p].pc = "incrementRetry.download"
        /\ poller[p].err = Some("blob not found")
        /\ FoldersOf(batchJobs, CurJob(poller[p]).batchId) = {"failed"}

\* C29: getJob returns null exactly when the job has no record under
\* pending/, completed/, processed/ or failed/; otherwise it returns a record
\* of that job, the one of the first of these folders that holds one.
C29_GetJobSearchesAllFolders ==
    \A j \in Jobs :
        LET held == {i \in 1..Len(Folders) : Exists(batchJobs, BlobName(Folders[i], j))}
        IN  IF held = {}
            THEN getJob(batchJobs, j) = Null
            ELSE /\ getJob(batchJobs, j) # Null
                 /\ getJob(batchJobs, j)[1].batchId = j
                 /\ \E i \in held :
                       /\ getJob(batchJobs, j)[1] = batchJobs[BlobName(Folders[i], j)]
                       /\ \A k \in held : i <= k

\* One job has its only record under failed/, the last folder searched, and
\* the other has none.
C29_Witness ==
    \E j, k \in Jobs :
        /\ FoldersOf(batchJobs, j) = {"failed"}
        /\ getJob(batchJobs, j) # Null /\ getJob(batchJobs, j)[1].status = "failed"
        /\ FoldersOf(batchJobs, k) = {} /\ getJob(batchJobs, k) = Null

\* C30: a document createBatchJsonl returns has one request per record of the
\* dataset, in the order of the records; the custom_id of the request is the
\* record's Id if it has one, else its Name if it has one, else "record-"
\* followed by the record's zero-based position; two runs on the same
\* dataset give the same custom_ids.
C30_CorrelationIds ==
    \A d, e \in 1..Len(jsonl.documents) :
        LET lines == jsonl.documents[d] IN
        /\ Len(lines) = Len(jsonl.records)
        /\ \A i \in 1..Len(lines) :
              LET record == jsonl.records[i] IN
              /\ lines[i].prompt = record
              /\ lines[i].custom_id =
                    IF record.Id \notin {Null, Some("")} THEN record.Id[1]
                    ELSE IF record.Name \notin {Null, Some("")} THEN record.Name[1]
                    ELSE <<"record-", i - 1>>
              /\ lines[i].custom_id = jsonl.documents[e][i].custom_id

\* A dataset of two records was turned into a document twice: the first
\* record has neither Id nor Name, the second has no Id but a Name.
C30_Witness ==
    /\ Len(jsonl.documents) = 2 /\ Len(jsonl.records) = 2
    /\ jsonl.records[1] = [Id |-> Null, Name |-> Null]
    /\ jsonl.records[2] = [Id |-> Null, Name |-> Some("n")]
    /\ jsonl.documents[2][1].custom_id = <<"record-", 0>>
    /\ jsonl.documents[2][2].custom_id = "n"

\* C31: what processBatches returns has one result per record, in the order
\* of the records, whatever the batch size; a call that rejected gives its
\* record a result with success false, and every call of every chunk was
\* made and settled although calls before it or beside it rejected.
C31_OneResultPerRecord ==
    /\ fan.pc = "returned"
       => /\ Len(fan.allResults) = Len(fan.records)
          /\ Len(fan.settled) = Len(fan.records)
          /\ \A i \in 1..Len(fan.records) : fan.allResults[i].originalRecord = fan.records[i]
          /\ Cardinality({i \in 1..Len(fan.records) : ~fan.allResults[i].success})
                = Cardinality({i \in 1..Len(fan.settled) : fan.settled[i] = "rejected"})
    /\ fan.pc = "await"
       => \A i \in 1..Len(fan.calls) :
             fan.calls[i] = "pending" => ENABLED FanSettle(i)

\* Three records in chunks of two: the first call rejected, the others
\* fulfilled, and the function returned three results.
C31_Witness ==
    /\ fan.pc = "returned" /\ Len(fan.records) = 3 /\ fan.batchSize = 2
    /\ ~fan.allResults[1].success /\ fan.allResults[2].success /\ fan.allResults[3].success

\* C32: with overlapping invocations and neither a storage fault nor a
\* crash, a job that has a record in the store and none under pending/ does
\* not get a record under pending/ again.
C32_PendingNotRecreated ==
    [][\A j \in Jobs :
          (/\ faultsLeft' = MaxFaults
           /\ FoldersOf(batchJobs, j) # {}
           /\ "pending" \notin FoldersOf(batchJobs, j))
          => "pending" \notin FoldersOf(batchJobs', j)]_vars

\* C33: once a result file has been written for a job, no step writes a
\* result file with another name for it.
C33_NoSecondResultFile ==
    [][\A j \in Jobs :
          Persisted(j) # {}
          => {n \in DOMAIN outputBlobs' : n[1] = InputBlobPathOf(j)[2]} = Persisted(j)]_vars

\* C34: a record under processed/ names, in outputBlobPath, a result file
\* that exists in the output container, and carries the outputFileId that
\* markCompleted wrote before markProcessed ran.
C34_ProcessedHasResultFile ==
    \A n \in DOMAIN batchJobs :
        n[1] = "processed"
        => /\ batchJobs[n].outputBlobPath # Null
           /\ batchJobs[n].outputBlobPath[1][1] = OUTPUT_CONTAINER
           /\ batchJobs[n].outputBlobPath[1][2] \in DOMAIN outputBlobs
           /\ batchJobs[n].outputFileId # Null /\ batchJobs[n].completedAt # Null

\* A job is processed and its result file holds a record.
C34_Witness ==
    \E j \in Jobs :
        /\ Exists(batchJobs, BlobName("processed", j))
        /\ Len(outputBlobs[batchJobs[BlobName("processed", j)].outputBlobPath[1][2]]) >= 1

\* C35: a step that starts the WriteBack pipeline for the result file of a
\* job is taken when the job has its record under processed/, and with one
\* invocation of the handler at a time the pipeline is started at most once
\* for a job.
C35_TriggerAfterProcessedOnce ==
    [][/\ pipelineRuns' # pipelineRuns
          => /\ Len(pipelineRuns') = Len(pipelineRuns) + 1
             /\ \E j \in Jobs :
                   /\ pipelineRuns'[Len(pipelineRuns')][1] = InputBlobPathOf(j)[2]
                   /\ Exists(batchJobs, BlobName("processed", j))
                   /\ StatusIn(batchJobs, j) = "processed"
                   /\ batchJobs[BlobName("processed", j)].outputBlobPath
                        = Some(<<OUTPUT_CONTAINER, pipelineRuns'[Len(pipelineRuns')]>>)
       /\ \A j \in Jobs :
             Cardinality({i \in 1..Len(pipelineRuns') :
                            pipelineRuns'[i][1] = InputBlobPathOf(j)[2]}) <= 1]_vars

\* The pipeline was started for a job that needed two reconciliation
\* attempts.
C35_Witness ==
    \E j \in Jobs :
        /\ Len(pipelineRuns) = 1 /\ pipelineRuns[1][1] = InputBlobPathOf(j)[2]
        /\ Cardinality(Persisted(j)) = 2

\* The only fault so far, if any, is the death of the host during the latest
\* invocation: no storage call has rejected.
NoStorageFaultSoFar ==
    \/ NoFaultSoFar
    \/ /\ faultsLeft = MaxFaults - 1
       /\ \E p \in Pollers : poller[p].outcome = "crashed"

TicksRecur == WF_vars(Handler("p1"))

SpecLive == Spec /\ TicksRecur

Pending(j) == Exists(batchJobs, BlobName("pending", j))

\* The latest answer to a status query was not a status of a batch that is
\* still running (or being cancelled): the query was rejected, or the batch
\* is completed, failed, expired or cancelled.
RemoteDone ==
    \A p \in Pollers :
        poller[p].batchStatus.status \notin (RunningStatuses \cup {"cancelling"})

\* C37: with one invocation at a time recurring forever, if from some time
\* on every status query is rejected or answered completed, failed, expired
\* or cancelled, then a job that is pending eventually is not pending,
\* whichever queries and downloads fail.
C37_PendingEventuallyLeaves ==
    (<>[]RemoteDone) => \A j \in Jobs : Pending(j) ~> ~Pending(j)

\* A job has left pending/ for processed/ after a rejected status query and
\* a failed download.
C37_Witness ==
    \E j \in Jobs :
        /\ NoFaultSoFar
        /\ history[j].failed > 0 /\ history[j].other > 0
        /\ ~Pending(j)
        /\ StatusIn(batchJobs, j) = "processed"

\* C38: once the submission handler has ended for a blob whose batch was
\* created by batches.create, the job has a record under some folder.
C38_CreatedBatchTracked ==
    \A b \in Jobs :
        (b \in batches /\ sub[b] \in {"failed", "done"})
            => FoldersOf(batchJobs, b) # {}

\* The host has died during the latest invocation and job j has two records.
DuplicateVisible(j) ==
    /\ \E p \in Pollers : poller[p].pc = "idle" /\ poller[p].outcome = "crashed"
    /\ Cardinality(FoldersOf(batchJobs, j)) = 2

\* C39: with the handler recurring and the batch no longer running, a job
\* left with two records by the death of the host between the write and the
\* delete of a moveJob eventually has a record in exactly one folder.
C39_DuplicateRepaired ==
    (<>[]RemoteDone)
        => \A j \in Jobs :
              DuplicateVisible(j) ~> (Cardinality(FoldersOf(batchJobs, j)) = 1)

\* The statuses the switch at lines 56-79 has a case for.
HandledStatuses == RunningStatuses \cup {"completed", "failed", "expired", "cancelled"}

\* C40: the step of the handler that is answered a status the switch has no
\* case for (such as cancelling) changes no record, writes no output,
\* triggers no pipeline, catches nothing, warns of nothing and goes on to the
\* next job: the record is still under pending/ as it was listed.
C40_UnknownStatusUnchanged ==
    [][\A p \in Pollers :
         LET l == poller[p]
             m == poller'[p]
         IN  (l.pc = "retrieve" /\ m.batchStatus.status \notin HandledStatuses \cup {"none"})
             => /\ batchJobs' = batchJobs
                /\ outputBlobs' = outputBlobs
                /\ pipelineRuns' = pipelineRuns
                /\ history'[CurJob(l).batchId].retried = history[CurJob(l).batchId].retried
                /\ m.pc \in {"retrieve", "idle"}
                /\ m.idx = l.idx + 1
                /\ ~m.inCatch /\ m.call = "none" /\ ~m.warned]_vars

\* A job whose status query was rejected once was then seen cancelling, and
\* the invocation returned: the record is under pending/ with retryCount 1.
C40_Witness ==
    \E j \in Jobs :
        /\ NoFaultSoFar
        /\ poller["p1"].pc = "idle" /\ poller["p1"].outcome = "returned"
        /\ poller["p1"].batchStatus.status = "cancelling"
        /\ poller["p1"].pendingJobs[poller["p1"].idx - 1].batchId = j
        /\ FoldersOf(batchJobs, j) = {"pending"}
        /\ history[j].retried = 1
        /\ batchJobs[BlobName("pending", j)] = [NewJob(j, 0) EXCEPT !.retryCount = 1]

=============================================================================
